---- MODULE Spec2Model ----
(***************************************************************************)
(* Model of packages/core/src/core/prompts.ts: getCoreSystemPrompt, the    *)
(* resolution of the GEMINI_SYSTEM_MD override and of the                  *)
(* GEMINI_WRITE_SYSTEM_MD write-back, against a shared filesystem.         *)
(*                                                                         *)
(* Strings are sequences of one-character strings, so that toLowerCase,    *)
(* startsWith, slice and the path functions are computed, not assumed.     *)
(* File contents and prompts are sequences of tokens: a token is either a  *)
(* white-space character or an opaque block of prose.                      *)
(***************************************************************************)
EXTENDS Integers, Sequences, FiniteSets, TLC

(***************************************************************************)
(* Bounds                                                                  *)
(***************************************************************************)
MaxExtOps == 1
MaxRepeatCalls == 1

\* Calls of getCompressionPrompt made beside a call of getCoreSystemPrompt.
MaxCompressionCalls == 2

(***************************************************************************)
(* JavaScript strings                                                      *)
(***************************************************************************)
\* The value of an unset environment variable or of an omitted argument.
undefined == <<"<undefined>">>

\* A test for "is set" that takes the empty string for a value.
TruthyIfDefined(s) == s # undefined

\* JavaScript truthiness of an optional string: undefined and "" are falsy.
Truthy(s) == s # undefined /\ s # <<>>

LowerChar(c) ==
    CASE c = "A" -> "a" [] c = "E" -> "e" [] c = "F" -> "f" [] c = "L" -> "l"
      [] c = "R" -> "r" [] c = "S" -> "s" [] c = "T" -> "t" [] c = "U" -> "u"
      [] OTHER -> c

toLowerCase(s) == [i \in 1..Len(s) |-> LowerChar(s[i])]

startsWith(s, prefix) ==
    /\ Len(s) >= Len(prefix)
    /\ SubSeq(s, 1, Len(prefix)) = prefix

\* s.slice(n): the string from (0-based) index n on.
slice(s, n) == SubSeq(s, n + 1, Len(s))

WhiteSpace == {" ", "\n"}

RECURSIVE trimStart(_)
trimStart(s) ==
    IF s # <<>> /\ Head(s) \in WhiteSpace THEN trimStart(Tail(s)) ELSE s

RECURSIVE trimEnd(_)
trimEnd(s) ==
    IF s # <<>> /\ s[Len(s)] \in WhiteSpace
    THEN trimEnd(SubSeq(s, 1, Len(s) - 1))
    ELSE s

trim(s) == trimEnd(trimStart(s))

(***************************************************************************)
(* node:path (POSIX) and node:os                                           *)
(***************************************************************************)
\* The segments of a path: the maximal runs of characters other than "/".
RECURSIVE SplitPath(_, _, _)
SplitPath(s, cur, acc) ==
    IF s = <<>>
    THEN IF cur = <<>> THEN acc ELSE Append(acc, cur)
    ELSE IF Head(s) = "/"
         THEN SplitPath(Tail(s), <<>>,
                        IF cur = <<>> THEN acc ELSE Append(acc, cur))
         ELSE SplitPath(Tail(s), Append(cur, Head(s)), acc)

\* normalizeString: "." is dropped, ".." removes the segment before it;
\* above the root ".." is dropped, above a relative start it is kept.
RECURSIVE NormalizeSegments(_, _, _)
NormalizeSegments(segs, acc, isAbs) ==
    IF segs = <<>> THEN acc
    ELSE LET g == Head(segs) IN
         IF g = <<".">> THEN NormalizeSegments(Tail(segs), acc, isAbs)
         ELSE IF g = <<".", ".">>
              THEN IF acc # <<>> /\ acc[Len(acc)] # <<".", ".">>
                   THEN NormalizeSegments(Tail(segs),
                                          SubSeq(acc, 1, Len(acc) - 1), isAbs)
                   ELSE IF isAbs
                        THEN NormalizeSegments(Tail(segs), acc, isAbs)
                        ELSE NormalizeSegments(Tail(segs), Append(acc, g), isAbs)
              ELSE NormalizeSegments(Tail(segs), Append(acc, g), isAbs)

RECURSIVE JoinSegments(_)
JoinSegments(segs) ==
    IF segs = <<>> THEN <<>>
    ELSE IF Len(segs) = 1 THEN Head(segs)
         ELSE Head(segs) \o <<"/">> \o JoinSegments(Tail(segs))

isAbsolute(p) == p # <<>> /\ Head(p) = "/"

\* path.normalize
pathNormalize(p) ==
    IF p = <<>> THEN <<".">>
    ELSE LET body == JoinSegments(NormalizeSegments(SplitPath(p, <<>>, <<>>),
                                                     <<>>, isAbsolute(p)))
             trailing == p[Len(p)] = "/"
         IN IF isAbsolute(p)
            THEN IF body = <<>> THEN <<"/">>
                 ELSE <<"/">> \o body \o (IF trailing THEN <<"/">> ELSE <<>>)
            ELSE IF body = <<>>
                 THEN (IF trailing THEN <<".", "/">> ELSE <<".">>)
                 ELSE body \o (IF trailing THEN <<"/">> ELSE <<>>)

\* path.join(a, b)
pathJoin(a, b) ==
    IF a = <<>> /\ b = <<>> THEN <<".">>
    ELSE IF a = <<>> THEN pathNormalize(b)
    ELSE IF b = <<>> THEN pathNormalize(a)
    ELSE pathNormalize(a \o <<"/">> \o b)

\* path.resolve(p) in a process whose current working directory is cwd:
\* an absolute, normalized path without a trailing slash.
pathResolveFromHome(cwd, p) ==
    LET full == IF isAbsolute(p) THEN p
                ELSE IF p = <<>> THEN <<"/", "h">> ELSE <<"/", "h", "/">> \o p
        body == JoinSegments(NormalizeSegments(SplitPath(full, <<>>, <<>>),
                                                <<>>, TRUE))
    IN <<"/">> \o body

pathResolve(cwd, p) ==
    LET full == IF isAbsolute(p) THEN p
                ELSE IF p = <<>> THEN cwd ELSE cwd \o <<"/">> \o p
        body == JoinSegments(NormalizeSegments(SplitPath(full, <<>>, <<>>),
                                                <<>>, TRUE))
    IN <<"/">> \o body

\* path.dirname of an absolute normalized path.
pathDirname(p) ==
    LET segs == SplitPath(p, <<>>, <<>>)
    IN IF Len(segs) <= 1 THEN <<"/">>
       ELSE <<"/">> \o JoinSegments(SubSeq(segs, 1, Len(segs) - 1))

\* os.homedir()
homedir == <<"/", "h">>

\* GEMINI_CONFIG_DIR, a relative directory name ('.gemini').
GEMINI_CONFIG_DIR == <<".", "g", "e", "m", "i", "n", "i">>

SYSTEM_MD == <<"s", "y", "s", "t", "e", "m", ".", "m", "d">>


(***************************************************************************)
(* Configuration parsing: lines 25-40 and 327-341 of prompts.ts            *)
(***************************************************************************)
OffTokens == { <<"0">>, <<"f", "a", "l", "s", "e">> }
OnTokens == { <<"1">>, <<"t", "r", "u", "e">> }

\* let systemMdPath = path.resolve(path.join(GEMINI_CONFIG_DIR, 'system.md'))
DefaultSystemMdPath(cwd) == pathResolve(cwd, pathJoin(GEMINI_CONFIG_DIR, SYSTEM_MD))

\* The home-directory shorthand of a custom path (lines 33-38, 335-340).
expandHomeAnyTilde(customPath) ==
    IF startsWith(customPath, <<"~">>)
    THEN pathJoin(homedir, slice(customPath, 1))
    ELSE customPath

expandHome(customPath) ==
    IF startsWith(customPath, <<"~", "/">>)
    THEN pathJoin(homedir, slice(customPath, 2))
    ELSE IF customPath = <<"~">> THEN homedir
    ELSE customPath

resolveSystemMdLowerCasedPath(systemMdVar, cwd) ==
    IF ~Truthy(systemMdVar)
    THEN [enabled |-> FALSE, path |-> DefaultSystemMdPath(cwd)]
    ELSE IF toLowerCase(systemMdVar) \in OffTokens
    THEN [enabled |-> FALSE, path |-> DefaultSystemMdPath(cwd)]
    ELSE [enabled |-> TRUE,
          path |-> IF toLowerCase(systemMdVar) \in OnTokens
                   THEN DefaultSystemMdPath(cwd)
                   ELSE pathResolve(cwd, expandHome(toLowerCase(systemMdVar)))]

\* Lines 25-40: whether the override is enabled, and systemMdPath.
resolveSystemMdCaseSensitive(systemMdVar, cwd) ==
    IF ~Truthy(systemMdVar)
    THEN [enabled |-> FALSE, path |-> DefaultSystemMdPath(cwd)]
    ELSE IF systemMdVar \in OffTokens
    THEN [enabled |-> FALSE, path |-> DefaultSystemMdPath(cwd)]
    ELSE [enabled |-> TRUE,
          path |-> IF systemMdVar \in OnTokens
                   THEN DefaultSystemMdPath(cwd)
                   ELSE pathResolve(cwd, expandHome(systemMdVar))]

resolveSystemMd(systemMdVar, cwd) ==
    IF ~Truthy(systemMdVar)
    THEN [enabled |-> FALSE, path |-> DefaultSystemMdPath(cwd)]
    ELSE IF toLowerCase(systemMdVar) \in OffTokens
    THEN [enabled |-> FALSE, path |-> DefaultSystemMdPath(cwd)]
    ELSE [enabled |-> TRUE,
          path |-> IF toLowerCase(systemMdVar) \in OnTokens
                   THEN DefaultSystemMdPath(cwd)
                   ELSE pathResolve(cwd, expandHome(systemMdVar))]

resolveWriteSystemMdIfDefined(writeSystemMdVar, sysMdPath, cwd) ==
    IF writeSystemMdVar = undefined
    THEN [enabled |-> FALSE, path |-> sysMdPath]
    ELSE IF toLowerCase(writeSystemMdVar) \in OffTokens
    THEN [enabled |-> FALSE, path |-> sysMdPath]
    ELSE [enabled |-> TRUE,
          path |-> IF toLowerCase(writeSystemMdVar) \in OnTokens
                   THEN sysMdPath
                   ELSE pathResolve(cwd, expandHome(writeSystemMdVar))]

resolveWriteSystemMdOwnDefault(writeSystemMdVar, sysMdPath, cwd) ==
    IF ~Truthy(writeSystemMdVar)
    THEN [enabled |-> FALSE, path |-> sysMdPath]
    ELSE IF toLowerCase(writeSystemMdVar) \in OffTokens
    THEN [enabled |-> FALSE, path |-> sysMdPath]
    ELSE [enabled |-> TRUE,
          path |-> IF toLowerCase(writeSystemMdVar) \in OnTokens
                   THEN DefaultSystemMdPath(cwd)
                   ELSE pathResolve(cwd, expandHome(writeSystemMdVar))]

\* Lines 327-343: whether the write-back is enabled, and the file it writes.
\* For "1" and "true" it is systemMdPath as lines 25-40 left it.
resolveWriteSystemMd(writeSystemMdVar, sysMdPath, cwd) ==
    IF ~Truthy(writeSystemMdVar)
    THEN [enabled |-> FALSE, path |-> sysMdPath]
    ELSE IF toLowerCase(writeSystemMdVar) \in OffTokens
    THEN [enabled |-> FALSE, path |-> sysMdPath]
    ELSE [enabled |-> TRUE,
          path |-> IF toLowerCase(writeSystemMdVar) \in OnTokens
                   THEN sysMdPath
                   ELSE pathResolve(cwd, expandHome(writeSystemMdVar))]

(***************************************************************************)
(* The default template: lines 49-324                                      *)
(***************************************************************************)
SANDBOX_EXEC == <<"s", "a", "n", "d", "b", "o", "x", "-", "e", "x", "e", "c">>

sandboxFragmentNoneEmpty(SANDBOX) ==
    LET isSandboxExec == SANDBOX = SANDBOX_EXEC
        isGenericSandbox == Truthy(SANDBOX)
    IN IF isSandboxExec THEN <<"\n", "# macOS Seatbelt", "\n">>
       ELSE IF isGenericSandbox THEN <<"\n", "# Sandbox", "\n">>
       ELSE <<>>

sandboxFragmentBothTests(SANDBOX) ==
    LET isSandboxExec == SANDBOX = SANDBOX_EXEC
        isGenericSandbox == Truthy(SANDBOX)
    IN (IF isSandboxExec THEN <<"\n", "# macOS Seatbelt", "\n">> ELSE <<>>)
       \o (IF isGenericSandbox THEN <<"\n", "# Sandbox", "\n">> ELSE <<>>)
       \o (IF ~isSandboxExec /\ ~isGenericSandbox
           THEN <<"\n", "# Outside of Sandbox", "\n">> ELSE <<>>)

\* Lines 173-194.
sandboxFragment(SANDBOX) ==
    LET isSandboxExec == SANDBOX = SANDBOX_EXEC
        isGenericSandbox == Truthy(SANDBOX)
    IN IF isSandboxExec THEN <<"\n", "# macOS Seatbelt", "\n">>
       ELSE IF isGenericSandbox THEN <<"\n", "# Sandbox", "\n">>
       ELSE <<"\n", "# Outside of Sandbox", "\n">>

gitFragmentPlaceholder(isGit) ==
    IF isGit THEN <<"\n", "# Git Repository", "\n">>
    ELSE <<"\n", "# No Git Repository", "\n">>

\* Lines 196-216.
gitFragment(isGit) ==
    IF isGit THEN <<"\n", "# Git Repository", "\n">> ELSE <<>>

commitLineAlways(isGit) == <<"We should commit these changes">>

\* Lines 267-272.
commitLine(isGit) ==
    IF isGit THEN <<"We should commit these changes">> ELSE <<>>

defaultPromptUntrimmed(SANDBOX, isGit1, isGit2) ==
    <<"\n", "# System Identity", "\n", "\n">>
    \o sandboxFragment(SANDBOX)
    \o <<"\n", "\n">>
    \o gitFragment(isGit1)
    \o <<"\n", "\n", "\n">>
    \o <<"# Examples", "\n">>
    \o commitLine(isGit2)
    \o <<"\n", "</example>", "\n">>

defaultPromptGitFirst(SANDBOX, isGit1, isGit2) ==
    trim(<<"\n", "# System Identity", "\n", "\n">>
         \o gitFragment(isGit1)
         \o <<"\n", "\n">>
         \o sandboxFragment(SANDBOX)
         \o <<"\n", "\n", "\n">>
         \o <<"# Examples", "\n">>
         \o commitLine(isGit2)
         \o <<"\n", "</example>", "\n">>)

\* The template literal of lines 49-324, trimmed.  isGit1 and isGit2 are the
\* results of the two calls of isGitRepository (lines 197 and 268).
defaultPrompt(SANDBOX, isGit1, isGit2) ==
    trim(<<"\n", "# System Identity", "\n", "\n">>
         \o sandboxFragment(SANDBOX)
         \o <<"\n", "\n">>
         \o gitFragment(isGit1)
         \o <<"\n", "\n", "\n">>
         \o <<"# Examples", "\n">>
         \o commitLine(isGit2)
         \o <<"\n", "</example>", "\n">>)

\* Lines 348-351.
SEPARATOR == <<"\n", "\n", "-", "-", "-", "\n", "\n">>

memorySuffixIfSet(userMemory) ==
    IF Truthy(userMemory)
    THEN SEPARATOR \o trim(userMemory)
    ELSE <<>>

memorySuffix(userMemory) ==
    IF Truthy(userMemory) /\ Len(trim(userMemory)) > 0
    THEN SEPARATOR \o trim(userMemory)
    ELSE <<>>


(***************************************************************************)
(* Input sets                                                              *)
(***************************************************************************)
Procs == {1}

Cwds == { <<"/", "w">>, <<"/", "v">> }

V_0 == <<"0">>
V_1 == <<"1">>
V_false == <<"f", "a", "l", "s", "e">>
V_False == <<"F", "a", "l", "s", "e">>
V_FALSE == <<"F", "A", "L", "S", "E">>
V_true == <<"t", "r", "u", "e">>
V_True == <<"T", "r", "u", "e">>
V_TRUE == <<"T", "R", "U", "E">>
V_home == <<"~">>
V_homeFile == <<"~", "/", "c", ".", "m", "d">>
V_tildeName == <<"~", "x">>
V_underFile == <<"~", "/", "c", ".", "m", "d", "/", "f">>
V_relative == <<"f">>
V_dotted == <<".", "/", "s", "/", ".", ".", "/", "f">>
V_absolute == <<"/", "A", "/", "f">>

\* Values of GEMINI_SYSTEM_MD and of GEMINI_WRITE_SYSTEM_MD in the calls.
SystemMdValues ==
    { undefined, <<>>, V_0, V_False, V_1, V_TRUE, V_home, V_homeFile, V_relative }

WriteSystemMdValues ==
    { undefined, <<>>, V_0, V_FALSE, V_1, V_True, V_home, V_homeFile, V_underFile,
      V_relative }

\* Values on which the parsing alone is exercised.
ConfigValues ==
    { undefined, <<>>, V_0, V_false, V_False, V_FALSE, V_1, V_true, V_True,
      V_TRUE, V_home, V_homeFile, V_tildeName, V_underFile, V_relative, V_dotted,
      V_absolute }

SandboxValues == { undefined, SANDBOX_EXEC }

UserMemoryValues == { undefined, <<" ">>, <<" ", "remember X", "\n">> }

\* Contents of files that exist before the call or that others write.
OverrideContent == <<" ", "custom prompt", "\n">>
ExternalContent == <<"external">>

(***************************************************************************)
(* The filesystem                                                          *)
(***************************************************************************)
RECURSIVE Ancestors(_)
\* A path and every directory above it.
Ancestors(p) ==
    IF p = <<"/">> THEN { p } ELSE { p } \cup Ancestors(pathDirname(p))

ResolvedPaths ==
    { resolveSystemMd(v, c).path : v \in ConfigValues, c \in Cwds }
    \cup { homedir } \cup Cwds

PathUniverse == UNION { Ancestors(p) : p \in ResolvedPaths }

NoNode == [kind |-> "none", data |-> <<>>]
DirNode == [kind |-> "dir", data |-> <<>>]
FileNode(data) == [kind |-> "file", data |-> data]

\* fs.existsSync
existsSync(files, p) == files[p].kind # "none"

\* fs.mkdirSync(dir, { recursive: true }): the error it throws, or "ok".
mkdirError(files, dir) ==
    IF files[dir].kind = "file" THEN "EEXIST"
    ELSE IF \E a \in Ancestors(dir) : files[a].kind = "file" THEN "ENOTDIR"
    ELSE "ok"

mkdirSync(files, dir) ==
    [q \in DOMAIN files |-> IF q \in Ancestors(dir) THEN DirNode ELSE files[q]]

\* fs.writeFileSync(p, data): the error it throws, or "ok".
writeFileError(files, p) ==
    IF files[p].kind = "dir" THEN "EISDIR"
    ELSE IF files[pathDirname(p)].kind = "none" THEN "ENOENT"
    ELSE IF files[pathDirname(p)].kind = "file" THEN "ENOTDIR"
    ELSE "ok"

writeFileSync(files, p, data) == [files EXCEPT ![p] = FileNode(data)]

\* fs.readFileSync(p, 'utf8'): the error it throws, or "ok".
readFileError(files, p) ==
    IF files[p].kind = "none" THEN "ENOENT"
    ELSE IF files[p].kind = "dir" THEN "EISDIR"
    ELSE "ok"

\* The directories every filesystem has: the root, the home directory and
\* the working directories.
BaseFs ==
    [q \in PathUniverse |->
        IF \E d \in {homedir} \cup Cwds : q \in Ancestors(d)
        THEN DirNode ELSE NoNode]

WithFile(files, p, data) == writeFileSync(mkdirSync(files, pathDirname(p)), p, data)

\* Files an override can name: the default location of a working directory
\* and a file under the home directory.
OverrideFiles ==
    { DefaultSystemMdPath(<<"/", "w">>), pathResolve(<<"/", "w">>, expandHome(V_homeFile)) }

RECURSIVE WithFiles(_, _)
WithFiles(files, ps) ==
    IF ps = {} THEN files
    ELSE LET q == CHOOSE x \in ps : TRUE
         IN WithFiles(WithFile(files, q, OverrideContent), ps \ {q})

InitialFilesystems == { WithFiles(BaseFs, ps) : ps \in SUBSET OverrideFiles }

(***************************************************************************)
(* State                                                                   *)
(***************************************************************************)
VARIABLES
    fs,              \* the filesystem: path -> node
    gitRepo,         \* working directory -> isGitRepository(that directory)
    extOps,          \* number of steps other processes have taken
    pc,              \* per call: the statement the call is at
    env,             \* per call: process.env, process.cwd() and the argument
    systemMdEnabled, \* per call: the local of line 25
    systemMdPath,    \* per call: the local of line 26
    isGitFirst,      \* per call: result of isGitRepository at line 197
    basePrompt,      \* per call: the local of line 47
    result,          \* per call: what the call returned or threw
    log,             \* per call: the filesystem calls made, in order
    parsed,          \* the configuration parsing applied to chosen values
    composed,        \* the composition applied to chosen facts
    calls,           \* number of calls that followed the first one
    fsAtStart,       \* per call: the filesystem when the call was entered
    repeated,        \* per call: the call repeats the one before it
    lastReturn,      \* per call: what the call before it returned, when that
                     \* call had the same inputs and the same filesystem
    lastWritten,     \* per call: the file the call before it wrote its default
                     \* composition to, and that composition
    lastWriter,      \* among concurrent calls: the call whose write of the
                     \* file content happened last
    compression      \* getCompressionPrompt: calls made, and the last result

vars == <<fs, gitRepo, extOps, pc, env, systemMdEnabled, systemMdPath,
          isGitFirst, basePrompt, result, log, parsed, composed, calls,
          fsAtStart, repeated, lastReturn, lastWritten, lastWriter, compression>>

pureVars == <<parsed, composed, compression>>

seqVars == <<calls, fsAtStart, repeated, lastReturn, lastWritten, lastWriter>>

callVars == <<pc, env, systemMdEnabled, systemMdPath, isGitFirst, basePrompt,
              result, log>>

NoEnv ==
    [GEMINI_SYSTEM_MD |-> undefined, GEMINI_WRITE_SYSTEM_MD |-> undefined,
     SANDBOX |-> undefined, cwd |-> <<"/", "w">>, userMemory |-> undefined]

NoResult == [kind |-> "none", value |-> <<>>, error |-> ""]
Returned(s) == [kind |-> "return", value |-> s, error |-> ""]
Thrown(e) == [kind |-> "throw", value |-> <<>>, error |-> e]

\* new Error(`missing system prompt file '${systemMdPath}'`), line 43
MissingOverrideFile == "missing system prompt file"

\* Lines 25-40 and 327-343 as a function of the two configuration values
\* and of the working directory.
parseConfig(systemMdVar, writeSystemMdVar, cwd) ==
    LET r == resolveSystemMd(systemMdVar, cwd)
    IN [override |-> r,
        writeBack |-> resolveWriteSystemMd(writeSystemMdVar, r.path, cwd)]

NoSwitch == [enabled |-> FALSE, path |-> <<"/">>]
NoParse == [override |-> NoSwitch, writeBack |-> NoSwitch]

\* The inputs of the parsing: the two values, and the working directories
\* of two processes A and B that are given the same values.
ParseInputs ==
    [systemMd : ConfigValues, writeSystemMd : ConfigValues, cwdA : Cwds, cwdB : Cwds]

NotParsed(i) == [applied |-> FALSE, input |-> i, A |-> NoParse, B |-> NoParse]

\* Lines 47-353 as a function of the content of the override file
\* (undefined when the override is disabled), of the environment facts and
\* of userMemory: basePrompt and the returned string.
composePrompt(overrideContent, SANDBOX, isGit, userMemory) ==
    LET base == IF overrideContent # undefined
                THEN overrideContent
                ELSE defaultPrompt(SANDBOX, isGit, isGit)
    IN [base |-> base, output |-> base \o memorySuffix(userMemory)]

V_docker == <<"d", "o", "c", "k", "e", "r">>

\* Values of SANDBOX, and of userMemory, on which the composition alone is
\* exercised.
AllSandboxValues == { undefined, <<>>, SANDBOX_EXEC, V_docker }

AllUserMemoryValues ==
    { undefined, <<>>, <<" ">>, <<"\n", " ", "\n">>, <<"remember X">>,
      <<" ", "remember X", "\n">>, <<"remember", " ", "X", "\n">> }

EnvironmentFacts == [SANDBOX : AllSandboxValues, isGit : BOOLEAN]

\* The inputs of the composition: the override content or undefined,
\* userMemory, and the environment facts of two compositions A and B.
ComposeInputs ==
    [override : {undefined, OverrideContent}, userMemory : AllUserMemoryValues,
     A : EnvironmentFacts, B : EnvironmentFacts]

NoComposition == [base |-> <<>>, output |-> <<>>]

NotComposed(i) ==
    [applied |-> FALSE, input |-> i, A |-> NoComposition, B |-> NoComposition]

\* No call before this one wrote its default composition to a file.
NothingWritten == [path |-> <<>>, base |-> <<>>]

\* getCompressionPrompt was not called yet.
NotCalled == [calls |-> 0, value |-> <<>>]

IdleCalls ==
    /\ calls = 0
    /\ fsAtStart = [p \in Procs |-> fs]
    /\ repeated = [p \in Procs |-> FALSE]
    /\ lastReturn = [p \in Procs |-> undefined]
    /\ lastWritten = [p \in Procs |-> NothingWritten]
    /\ lastWriter = 0
    /\ compression = NotCalled
    /\ pc = [p \in Procs |-> "idle"]
    /\ env = [p \in Procs |-> NoEnv]
    /\ systemMdEnabled = [p \in Procs |-> FALSE]
    /\ systemMdPath = [p \in Procs |-> <<"/">>]
    /\ isGitFirst = [p \in Procs |-> FALSE]
    /\ basePrompt = [p \in Procs |-> <<>>]
    /\ result = [p \in Procs |-> NoResult]
    /\ log = [p \in Procs |-> <<>>]

Init ==
    /\ fs \in InitialFilesystems
    /\ gitRepo \in { [c \in Cwds |-> b] : b \in BOOLEAN }
    /\ extOps = 0
    /\ parsed = NotParsed(CHOOSE i \in ParseInputs : TRUE)
    /\ composed = NotComposed(CHOOSE i \in ComposeInputs : TRUE)
    /\ IdleCalls

\* Calls that follow one another may run in working directories of which
\* one is under version control and the other is not.
InitSeq ==
    /\ fs \in InitialFilesystems
    /\ gitRepo \in [Cwds -> BOOLEAN]
    /\ extOps = 0
    /\ parsed = NotParsed(CHOOSE i \in ParseInputs : TRUE)
    /\ composed = NotComposed(CHOOSE i \in ComposeInputs : TRUE)
    /\ IdleCalls

InitParse ==
    /\ fs = BaseFs
    /\ gitRepo = [c \in Cwds |-> FALSE]
    /\ extOps = 0
    /\ parsed \in { NotParsed(i) : i \in ParseInputs }
    /\ composed = NotComposed(CHOOSE i \in ComposeInputs : TRUE)
    /\ IdleCalls

InitCompose ==
    /\ fs = BaseFs
    /\ gitRepo = [c \in Cwds |-> FALSE]
    /\ extOps = 0
    /\ parsed = NotParsed(CHOOSE i \in ParseInputs : TRUE)
    /\ composed \in { NotComposed(i) : i \in ComposeInputs }
    /\ IdleCalls

(***************************************************************************)
(* getCoreSystemPrompt, statement by statement                             *)
(***************************************************************************)
\* The write-back switch of call p (lines 327-343).
writeBack(p) ==
    resolveWriteSystemMd(env[p].GEMINI_WRITE_SYSTEM_MD, systemMdPath[p], env[p].cwd)

\* Where a call goes once basePrompt is assigned (line 328).
afterBasePrompt(p) == IF writeBack(p).enabled THEN "mkdir" ELSE "return"

EnterParsedOnce(p, sysValues, writeValues, sandboxValues, cwds, memories) ==
    /\ pc[p] = "idle"
    /\ \E s \in sysValues, w \in writeValues, sb \in sandboxValues,
          c \in cwds, m \in memories :
          LET r == IF calls = 0 THEN resolveSystemMd(s, c)
                   ELSE [enabled |-> systemMdEnabled[p], path |-> systemMdPath[p]] IN
          /\ env' = [env EXCEPT ![p] =
                        [GEMINI_SYSTEM_MD |-> s, GEMINI_WRITE_SYSTEM_MD |-> w,
                         SANDBOX |-> sb, cwd |-> c, userMemory |-> m]]
          /\ systemMdEnabled' = [systemMdEnabled EXCEPT ![p] = r.enabled]
          /\ systemMdPath' = [systemMdPath EXCEPT ![p] = r.path]
          /\ pc' = [pc EXCEPT ![p] = IF r.enabled THEN "exists" ELSE "compose"]
          /\ repeated' = [repeated EXCEPT ![p] =
                             /\ result[p].kind = "return"
                             /\ env'[p] = env[p]]
          /\ lastReturn' = [lastReturn EXCEPT ![p] =
                               IF /\ result[p].kind = "return"
                                  /\ env'[p] = env[p]
                                  /\ fs = fsAtStart[p]
                               THEN result[p].value ELSE undefined]
          /\ lastWritten' = [lastWritten EXCEPT ![p] =
                                IF /\ result[p].kind = "return"
                                   /\ ~systemMdEnabled[p]
                                   /\ writeBack(p).enabled
                                THEN [path |-> writeBack(p).path,
                                      base |-> basePrompt[p]]
                                ELSE NothingWritten]
    /\ log' = [log EXCEPT ![p] = <<>>]
    /\ result' = [result EXCEPT ![p] = NoResult]
    /\ basePrompt' = [basePrompt EXCEPT ![p] = <<>>]
    /\ isGitFirst' = [isGitFirst EXCEPT ![p] = FALSE]
    /\ fsAtStart' = [fsAtStart EXCEPT ![p] = fs]
    /\ UNCHANGED <<pureVars, calls, lastWriter, fs, gitRepo, extOps>>

\* Lines 22-40: the call is entered and the override switch is parsed. The
\* environment and the argument of the call are drawn from the given sets.
Enter(p, sysValues, writeValues, sandboxValues, cwds, memories) ==
    /\ pc[p] = "idle"
    /\ \E s \in sysValues, w \in writeValues, sb \in sandboxValues,
          c \in cwds, m \in memories :
          LET r == resolveSystemMd(s, c) IN
          /\ env' = [env EXCEPT ![p] =
                        [GEMINI_SYSTEM_MD |-> s, GEMINI_WRITE_SYSTEM_MD |-> w,
                         SANDBOX |-> sb, cwd |-> c, userMemory |-> m]]
          /\ systemMdEnabled' = [systemMdEnabled EXCEPT ![p] = r.enabled]
          /\ systemMdPath' = [systemMdPath EXCEPT ![p] = r.path]
          /\ pc' = [pc EXCEPT ![p] = IF r.enabled THEN "exists" ELSE "compose"]
          /\ repeated' = [repeated EXCEPT ![p] =
                             /\ result[p].kind = "return"
                             /\ env'[p] = env[p]]
          /\ lastReturn' = [lastReturn EXCEPT ![p] =
                               IF /\ result[p].kind = "return"
                                  /\ env'[p] = env[p]
                                  /\ fs = fsAtStart[p]
                               THEN result[p].value ELSE undefined]
          /\ lastWritten' = [lastWritten EXCEPT ![p] =
                                IF /\ result[p].kind = "return"
                                   /\ ~systemMdEnabled[p]
                                   /\ writeBack(p).enabled
                                THEN [path |-> writeBack(p).path,
                                      base |-> basePrompt[p]]
                                ELSE NothingWritten]
    /\ log' = [log EXCEPT ![p] = <<>>]
    /\ result' = [result EXCEPT ![p] = NoResult]
    /\ basePrompt' = [basePrompt EXCEPT ![p] = <<>>]
    /\ isGitFirst' = [isGitFirst EXCEPT ![p] = FALSE]
    /\ fsAtStart' = [fsAtStart EXCEPT ![p] = fs]
    /\ UNCHANGED <<pureVars, calls, lastWriter, fs, gitRepo, extOps>>

Start(p, sysValues, writeValues) ==
    Enter(p, sysValues, writeValues, SandboxValues, Cwds, UserMemoryValues)

ExistsCheckEnsuringDir(p) ==
    /\ pc[p] = "exists"
    /\ log' = [log EXCEPT ![p] = Append(@, <<"existsSync", systemMdPath[p]>>)]
    /\ IF existsSync(fs, systemMdPath[p])
       THEN /\ pc' = [pc EXCEPT ![p] = "read"]
            /\ UNCHANGED <<result, fs>>
       ELSE /\ pc' = [pc EXCEPT ![p] = "done"]
            /\ result' = [result EXCEPT ![p] = Thrown(MissingOverrideFile)]
            /\ fs' = IF mkdirError(fs, pathDirname(systemMdPath[p])) = "ok"
                     THEN mkdirSync(fs, pathDirname(systemMdPath[p])) ELSE fs
    /\ UNCHANGED <<pureVars, seqVars, gitRepo, extOps, env, systemMdEnabled, systemMdPath,
                   isGitFirst, basePrompt>>

ExistsCheckFallback(p) ==
    /\ pc[p] = "exists"
    /\ log' = [log EXCEPT ![p] = Append(@, <<"existsSync", systemMdPath[p]>>)]
    /\ IF existsSync(fs, systemMdPath[p])
       THEN /\ pc' = [pc EXCEPT ![p] = "read"]
            /\ UNCHANGED systemMdEnabled
       ELSE /\ pc' = [pc EXCEPT ![p] = "compose"]
            /\ systemMdEnabled' = [systemMdEnabled EXCEPT ![p] = FALSE]
    /\ UNCHANGED <<pureVars, seqVars, fs, gitRepo, extOps, env, systemMdPath, isGitFirst,
                   basePrompt, result>>

\* Lines 42-44: the override file must exist.
ExistsCheck(p) ==
    /\ pc[p] = "exists"
    /\ log' = [log EXCEPT ![p] = Append(@, <<"existsSync", systemMdPath[p]>>)]
    /\ IF existsSync(fs, systemMdPath[p])
       THEN /\ pc' = [pc EXCEPT ![p] = "read"]
            /\ UNCHANGED result
       ELSE /\ pc' = [pc EXCEPT ![p] = "done"]
            /\ result' = [result EXCEPT ![p] = Thrown(MissingOverrideFile)]
    /\ UNCHANGED <<pureVars, seqVars, fs, gitRepo, extOps, env, systemMdEnabled, systemMdPath,
                   isGitFirst, basePrompt>>

ReadOverrideWithGitSection(p) ==
    /\ pc[p] = "read"
    /\ log' = [log EXCEPT ![p] = Append(@, <<"readFileSync", systemMdPath[p]>>)]
    /\ IF readFileError(fs, systemMdPath[p]) = "ok"
       THEN /\ basePrompt' = [basePrompt EXCEPT ![p] =
                                 fs[systemMdPath[p]].data
                                 \o gitFragment(gitRepo[env[p].cwd])]
            /\ pc' = [pc EXCEPT ![p] = afterBasePrompt(p)]
            /\ UNCHANGED result
       ELSE /\ pc' = [pc EXCEPT ![p] = "done"]
            /\ result' = [result EXCEPT ![p] =
                             Thrown(readFileError(fs, systemMdPath[p]))]
            /\ UNCHANGED basePrompt
    /\ UNCHANGED <<pureVars, seqVars, fs, gitRepo, extOps, env, systemMdEnabled,
                   systemMdPath, isGitFirst>>

ReadOverrideTrimmed(p) ==
    /\ pc[p] = "read"
    /\ log' = [log EXCEPT ![p] = Append(@, <<"readFileSync", systemMdPath[p]>>)]
    /\ IF readFileError(fs, systemMdPath[p]) = "ok"
       THEN /\ basePrompt' = [basePrompt EXCEPT ![p] =
                                 trim(fs[systemMdPath[p]].data)]
            /\ pc' = [pc EXCEPT ![p] = afterBasePrompt(p)]
            /\ UNCHANGED result
       ELSE /\ pc' = [pc EXCEPT ![p] = "done"]
            /\ result' = [result EXCEPT ![p] =
                             Thrown(readFileError(fs, systemMdPath[p]))]
            /\ UNCHANGED basePrompt
    /\ UNCHANGED <<pureVars, seqVars, fs, gitRepo, extOps, env, systemMdEnabled,
                   systemMdPath, isGitFirst>>

\* Line 48: basePrompt = fs.readFileSync(systemMdPath, 'utf8').
ReadOverride(p) ==
    /\ pc[p] = "read"
    /\ log' = [log EXCEPT ![p] = Append(@, <<"readFileSync", systemMdPath[p]>>)]
    /\ IF readFileError(fs, systemMdPath[p]) = "ok"
       THEN /\ basePrompt' = [basePrompt EXCEPT ![p] = fs[systemMdPath[p]].data]
            /\ pc' = [pc EXCEPT ![p] = afterBasePrompt(p)]
            /\ UNCHANGED result
       ELSE /\ pc' = [pc EXCEPT ![p] = "done"]
            /\ result' = [result EXCEPT ![p] =
                             Thrown(readFileError(fs, systemMdPath[p]))]
            /\ UNCHANGED basePrompt
    /\ UNCHANGED <<pureVars, seqVars, fs, gitRepo, extOps, env, systemMdEnabled, systemMdPath,
                   isGitFirst>>

\* Lines 49-216: the template literal is evaluated up to and including the
\* first call of isGitRepository(process.cwd()).
ComposeFirst(p) ==
    /\ pc[p] = "compose"
    /\ isGitFirst' = [isGitFirst EXCEPT ![p] = gitRepo[env[p].cwd]]
    /\ pc' = [pc EXCEPT ![p] = "compose2"]
    /\ UNCHANGED <<pureVars, seqVars, fs, gitRepo, extOps, env, systemMdEnabled, systemMdPath,
                   basePrompt, result, log>>

\* Lines 217-324: the rest of the template literal, with the second call of
\* isGitRepository(process.cwd()), then .trim().
ComposeRest(p) ==
    /\ pc[p] = "compose2"
    /\ basePrompt' = [basePrompt EXCEPT ![p] =
                         defaultPrompt(env[p].SANDBOX, isGitFirst[p],
                                       gitRepo[env[p].cwd])]
    /\ pc' = [pc EXCEPT ![p] = afterBasePrompt(p)]
    /\ UNCHANGED <<pureVars, seqVars, fs, gitRepo, extOps, env, systemMdEnabled, systemMdPath,
                   isGitFirst, result, log>>

MakeDirsBestEffort(p) ==
    /\ pc[p] = "mkdir"
    /\ LET dir == pathDirname(writeBack(p).path) IN
       /\ log' = [log EXCEPT ![p] = Append(@, <<"mkdirSync", dir>>)]
       /\ IF mkdirError(fs, dir) = "ok"
          THEN /\ fs' = mkdirSync(fs, dir)
               /\ pc' = [pc EXCEPT ![p] = "write"]
          ELSE /\ pc' = [pc EXCEPT ![p] = "return"]
               /\ UNCHANGED fs
       /\ UNCHANGED result
    /\ UNCHANGED <<pureVars, seqVars, gitRepo, extOps, env, systemMdEnabled, systemMdPath,
                   isGitFirst, basePrompt>>

\* Lines 332 and 342: fs.mkdirSync(path.dirname(target), { recursive: true }).
MakeDirs(p) ==
    /\ pc[p] = "mkdir"
    /\ LET dir == pathDirname(writeBack(p).path) IN
       /\ log' = [log EXCEPT ![p] = Append(@, <<"mkdirSync", dir>>)]
       /\ IF mkdirError(fs, dir) = "ok"
          THEN /\ fs' = mkdirSync(fs, dir)
               /\ pc' = [pc EXCEPT ![p] = "write"]
               /\ UNCHANGED result
          ELSE /\ pc' = [pc EXCEPT ![p] = "done"]
               /\ result' = [result EXCEPT ![p] = Thrown(mkdirError(fs, dir))]
               /\ UNCHANGED fs
    /\ UNCHANGED <<pureVars, seqVars, gitRepo, extOps, env, systemMdEnabled, systemMdPath,
                   isGitFirst, basePrompt>>

WriteFileDefaultTemplate(p) ==
    /\ pc[p] = "write"
    /\ LET target == writeBack(p).path IN
       /\ log' = [log EXCEPT ![p] = Append(@, <<"writeFileSync", target>>)]
       /\ IF writeFileError(fs, target) = "ok"
          THEN /\ fs' = writeFileSync(fs, target,
                                      defaultPrompt(env[p].SANDBOX, gitRepo[env[p].cwd],
                                                    gitRepo[env[p].cwd]))
               /\ pc' = [pc EXCEPT ![p] = "return"]
               /\ UNCHANGED result
          ELSE /\ pc' = [pc EXCEPT ![p] = "done"]
               /\ result' = [result EXCEPT ![p] =
                                Thrown(writeFileError(fs, target))]
               /\ UNCHANGED fs
    /\ UNCHANGED <<pureVars, seqVars, gitRepo, extOps, env, systemMdEnabled, systemMdPath,
                   isGitFirst, basePrompt>>

WriteFileAppending(p) ==
    /\ pc[p] = "write"
    /\ LET target == writeBack(p).path IN
       /\ log' = [log EXCEPT ![p] = Append(@, <<"writeFileSync", target>>)]
       /\ IF writeFileError(fs, target) = "ok"
          THEN /\ fs' = writeFileSync(fs, target, fs[target].data \o basePrompt[p])
               /\ pc' = [pc EXCEPT ![p] = "return"]
               /\ UNCHANGED result
          ELSE /\ pc' = [pc EXCEPT ![p] = "done"]
               /\ result' = [result EXCEPT ![p] =
                                Thrown(writeFileError(fs, target))]
               /\ UNCHANGED fs
    /\ UNCHANGED <<pureVars, seqVars, gitRepo, extOps, env, systemMdEnabled, systemMdPath,
                   isGitFirst, basePrompt>>

WriteFileTrimmed(p) ==
    /\ pc[p] = "write"
    /\ LET target == writeBack(p).path IN
       /\ log' = [log EXCEPT ![p] = Append(@, <<"writeFileSync", target>>)]
       /\ IF writeFileError(fs, target) = "ok"
          THEN /\ fs' = writeFileSync(fs, target, trim(basePrompt[p]))
               /\ pc' = [pc EXCEPT ![p] = "return"]
               /\ UNCHANGED result
          ELSE /\ pc' = [pc EXCEPT ![p] = "done"]
               /\ result' = [result EXCEPT ![p] =
                                Thrown(writeFileError(fs, target))]
               /\ UNCHANGED fs
    /\ UNCHANGED <<pureVars, seqVars, gitRepo, extOps, env, systemMdEnabled, systemMdPath,
                   isGitFirst, basePrompt>>

WriteFileWithMemory(p) ==
    /\ pc[p] = "write"
    /\ LET target == writeBack(p).path IN
       /\ log' = [log EXCEPT ![p] = Append(@, <<"writeFileSync", target>>)]
       /\ IF writeFileError(fs, target) = "ok"
          THEN /\ fs' = writeFileSync(fs, target,
                                      basePrompt[p] \o memorySuffix(env[p].userMemory))
               /\ pc' = [pc EXCEPT ![p] = "return"]
               /\ UNCHANGED result
          ELSE /\ pc' = [pc EXCEPT ![p] = "done"]
               /\ result' = [result EXCEPT ![p] =
                                Thrown(writeFileError(fs, target))]
               /\ UNCHANGED fs
    /\ UNCHANGED <<pureVars, seqVars, gitRepo, extOps, env, systemMdEnabled, systemMdPath,
                   isGitFirst, basePrompt>>

\* Lines 333 and 343: fs.writeFileSync(target, basePrompt).
WriteFile(p) ==
    /\ pc[p] = "write"
    /\ LET target == writeBack(p).path IN
       /\ log' = [log EXCEPT ![p] = Append(@, <<"writeFileSync", target>>)]
       /\ IF writeFileError(fs, target) = "ok"
          THEN /\ fs' = writeFileSync(fs, target, basePrompt[p])
               /\ pc' = [pc EXCEPT ![p] = "return"]
               /\ UNCHANGED result
          ELSE /\ pc' = [pc EXCEPT ![p] = "done"]
               /\ result' = [result EXCEPT ![p] =
                                Thrown(writeFileError(fs, target))]
               /\ UNCHANGED fs
    /\ UNCHANGED <<pureVars, seqVars, gitRepo, extOps, env, systemMdEnabled, systemMdPath,
                   isGitFirst, basePrompt>>

\* Lines 348-353: return `${basePrompt}${memorySuffix}`.
Return(p) ==
    /\ pc[p] = "return"
    /\ result' = [result EXCEPT ![p] =
                     Returned(basePrompt[p] \o memorySuffix(env[p].userMemory))]
    /\ pc' = [pc EXCEPT ![p] = "done"]
    /\ UNCHANGED <<pureVars, seqVars, fs, gitRepo, extOps, env, systemMdEnabled, systemMdPath,
                   isGitFirst, basePrompt, log>>

(***************************************************************************)
(* Other processes on the same filesystem                                  *)
(***************************************************************************)
\* Another process writes a file at a place an override can name.
ExtWriteFile ==
    /\ extOps < MaxExtOps
    /\ \E q \in OverrideFiles :
          /\ mkdirError(fs, pathDirname(q)) = "ok"
          /\ fs[q].kind # "dir"
          /\ fs[q] # FileNode(ExternalContent)
          /\ fs' = WithFile(fs, q, ExternalContent)
    /\ extOps' = extOps + 1
    /\ UNCHANGED <<pureVars, seqVars, gitRepo, callVars>>

\* Another process deletes such a file.
ExtUnlink ==
    /\ extOps < MaxExtOps
    /\ \E q \in OverrideFiles :
          /\ fs[q].kind = "file"
          /\ fs' = [fs EXCEPT ![q] = NoNode]
    /\ extOps' = extOps + 1
    /\ UNCHANGED <<pureVars, seqVars, gitRepo, callVars>>

\* Another process puts a working directory under version control, or
\* removes it from version control.
ExtGit ==
    /\ extOps < MaxExtOps
    /\ \E c \in Cwds : gitRepo' = [gitRepo EXCEPT ![c] = ~@]
    /\ extOps' = extOps + 1
    /\ UNCHANGED <<pureVars, seqVars, fs, callVars>>

(***************************************************************************)
(* Specifications                                                          *)
(***************************************************************************)
Call(p) ==
    \/ ExistsCheck(p)
    \/ ReadOverride(p)
    \/ ComposeFirst(p)
    \/ ComposeRest(p)
    \/ MakeDirs(p)
    \/ WriteFile(p)
    \/ Return(p)

\* One call, alone on the filesystem.
Next ==
    \/ \E p \in Procs : Start(p, SystemMdValues, WriteSystemMdValues)
    \/ \E p \in Procs : Call(p)

Spec == Init /\ [][Next]_vars

\* One call, with other processes acting between its statements.
NextEnv ==
    \/ \E p \in Procs : Start(p, SystemMdValues, WriteSystemMdValues)
    \/ \E p \in Procs : Call(p)
    \/ ExtWriteFile
    \/ ExtUnlink
    \/ ExtGit

SpecEnv == Init /\ [][NextEnv]_vars

\* The configuration parsing alone, applied to chosen values.
ParseConfig ==
    /\ ~parsed.applied
    /\ parsed' = [parsed EXCEPT
                     !.applied = TRUE,
                     !.A = parseConfig(parsed.input.systemMd,
                                       parsed.input.writeSystemMd,
                                       parsed.input.cwdA),
                     !.B = parseConfig(parsed.input.systemMd,
                                       parsed.input.writeSystemMd,
                                       parsed.input.cwdB)]
    /\ UNCHANGED <<composed, compression, fs, gitRepo, extOps, callVars, seqVars>>

NextParse == ParseConfig

SpecParse == InitParse /\ [][NextParse]_vars

\* The composition alone, applied to chosen facts.
Compose ==
    /\ ~composed.applied
    /\ composed' = [composed EXCEPT
                       !.applied = TRUE,
                       !.A = composePrompt(composed.input.override,
                                           composed.input.A.SANDBOX,
                                           composed.input.A.isGit,
                                           composed.input.userMemory),
                       !.B = composePrompt(composed.input.override,
                                           composed.input.B.SANDBOX,
                                           composed.input.B.isGit,
                                           composed.input.userMemory)]
    /\ UNCHANGED <<parsed, compression, fs, gitRepo, extOps, callVars, seqVars>>

NextCompose == Compose

SpecCompose == InitCompose /\ [][NextCompose]_vars

\* The caller calls getCoreSystemPrompt again.
Again(p) ==
    /\ pc[p] = "done"
    /\ calls < MaxRepeatCalls
    /\ calls' = calls + 1
    /\ pc' = [pc EXCEPT ![p] = "idle"]
    /\ UNCHANGED <<pureVars, fs, gitRepo, extOps, env, systemMdEnabled,
                   systemMdPath, isGitFirst, basePrompt, result, log,
                   fsAtStart, repeated, lastReturn, lastWritten, lastWriter>>

(***************************************************************************)
(* getCompressionPrompt: lines 361-419                                     *)
(***************************************************************************)
\* The template literal of lines 362-418, trimmed.
getCompressionPrompt ==
    trim(<<"\n", "You are the component that summarizes internal chat history",
           "\n", "\n", "<state_snapshot>", "\n", "</state_snapshot>", "\n">>)

GetCompressionPromptFromOverride ==
    /\ compression.calls < MaxCompressionCalls
    /\ compression' =
          [calls |-> compression.calls + 1,
           value |-> IF \E q \in OverrideFiles : fs[q].kind = "file"
                     THEN fs[CHOOSE q \in OverrideFiles : fs[q].kind = "file"].data
                     ELSE getCompressionPrompt]
    /\ UNCHANGED <<parsed, composed, seqVars, fs, gitRepo, extOps, callVars>>

\* A call of getCompressionPrompt, between any two statements of a call of
\* getCoreSystemPrompt.
GetCompressionPrompt ==
    /\ compression.calls < MaxCompressionCalls
    /\ compression' = [calls |-> compression.calls + 1, value |-> getCompressionPrompt]
    /\ UNCHANGED <<parsed, composed, seqVars, fs, gitRepo, extOps, callVars>>

\* Values of the two switches in the calls that follow one another.
SeqSystemMdValues == { undefined, V_1, V_homeFile }

SeqWriteSystemMdValues == { undefined, V_1, V_homeFile }

SeqUserMemoryValues == { undefined, <<" ", "remember X", "\n">> }

\* Calls one after the other, alone on the filesystem.
NextSeq ==
    \/ \E p \in Procs : Enter(p, SeqSystemMdValues, SeqWriteSystemMdValues,
                               SandboxValues, Cwds, SeqUserMemoryValues)
    \/ \E p \in Procs : Call(p)
    \/ \E p \in Procs : Again(p)

SpecSeq == InitSeq /\ [][NextSeq]_vars

(***************************************************************************)
(* Two concurrent calls                                                    *)
(***************************************************************************)
\* Two processes that call getCoreSystemPrompt on the same filesystem, with
\* no lock between them.
PairProcs == {1, 2}

PairSystemMdValues == { undefined, V_homeFile }
PairWriteSystemMdValues == { undefined, V_homeFile }
PairSandboxValues == { undefined }
PairUserMemoryValues == { undefined }

InitPair ==
    /\ fs \in InitialFilesystems
    /\ gitRepo \in { [c \in Cwds |-> b /\ c = <<"/", "w">>] : b \in BOOLEAN }
    /\ extOps = 0
    /\ parsed = NotParsed(CHOOSE i \in ParseInputs : TRUE)
    /\ composed = NotComposed(CHOOSE i \in ComposeInputs : TRUE)
    /\ compression = NotCalled
    /\ calls = 0
    /\ lastWriter = 0
    /\ fsAtStart = [p \in PairProcs |-> fs]
    /\ repeated = [p \in PairProcs |-> FALSE]
    /\ lastReturn = [p \in PairProcs |-> undefined]
    /\ lastWritten = [p \in PairProcs |-> NothingWritten]
    /\ pc = [p \in PairProcs |-> "idle"]
    /\ env = [p \in PairProcs |-> NoEnv]
    /\ systemMdEnabled = [p \in PairProcs |-> FALSE]
    /\ systemMdPath = [p \in PairProcs |-> <<"/">>]
    /\ isGitFirst = [p \in PairProcs |-> FALSE]
    /\ basePrompt = [p \in PairProcs |-> <<>>]
    /\ result = [p \in PairProcs |-> NoResult]
    /\ log = [p \in PairProcs |-> <<>>]

\* Lines 333 and 343, first half: fs.writeFileSync opens the target with
\* the flag 'w', which creates the file or truncates it to length zero.
OpenFile(p) ==
    /\ pc[p] = "write"
    /\ LET target == writeBack(p).path IN
       /\ log' = [log EXCEPT ![p] = Append(@, <<"writeFileSync", target>>)]
       /\ IF writeFileError(fs, target) = "ok"
          THEN /\ fs' = writeFileSync(fs, target, <<>>)
               /\ pc' = [pc EXCEPT ![p] = "writing"]
               /\ UNCHANGED result
          ELSE /\ pc' = [pc EXCEPT ![p] = "done"]
               /\ result' = [result EXCEPT ![p] =
                                Thrown(writeFileError(fs, target))]
               /\ UNCHANGED fs
    /\ UNCHANGED <<pureVars, seqVars, gitRepo, extOps, env, systemMdEnabled, systemMdPath,
                   isGitFirst, basePrompt>>

\* Lines 333 and 343, second half: fs.writeFileSync writes the data from
\* position 0 of the file it opened; what another process wrote beyond the
\* length of the data in the meantime stays in the file.
WriteData(p) ==
    /\ pc[p] = "writing"
    /\ LET target == writeBack(p).path
           old == fs[target].data
       IN fs' = writeFileSync(fs, target,
                              basePrompt[p]
                              \o SubSeq(old, Len(basePrompt[p]) + 1, Len(old)))
    /\ lastWriter' = p
    /\ pc' = [pc EXCEPT ![p] = "return"]
    /\ UNCHANGED <<pureVars, calls, fsAtStart, repeated, lastReturn, lastWritten,
                   gitRepo, extOps, env, systemMdEnabled, systemMdPath, isGitFirst,
                   basePrompt, result, log>>

PairCall(p) ==
    \/ ExistsCheck(p)
    \/ ReadOverride(p)
    \/ ComposeFirst(p)
    \/ ComposeRest(p)
    \/ MakeDirs(p)
    \/ OpenFile(p)
    \/ WriteData(p)
    \/ Return(p)

NextPair ==
    \/ \E p \in PairProcs : Enter(p, PairSystemMdValues, PairWriteSystemMdValues,
                                   PairSandboxValues, Cwds, PairUserMemoryValues)
    \/ \E p \in PairProcs : PairCall(p)

SpecPair == InitPair /\ [][NextPair]_vars

\* One call of getCoreSystemPrompt with calls of getCompressionPrompt
\* between its statements.
NextBoth ==
    \/ \E p \in Procs : Enter(p, SeqSystemMdValues, SeqWriteSystemMdValues,
                               SandboxValues, Cwds, SeqUserMemoryValues)
    \/ \E p \in Procs : Call(p)
    \/ GetCompressionPrompt

SpecBoth == Init /\ [][NextBoth]_vars


(***************************************************************************)
(* Vocabulary of the properties                                            *)
(***************************************************************************)
\* A switch value that turns its feature on: set, not empty, not "0"/"false".
SwitchOn(v) == v # undefined /\ v # <<>> /\ toLowerCase(v) \notin OffTokens

\* A value that is "1" or "true" in some letter case.
IsOnToken(v) == toLowerCase(v) \in OnTokens

\* A value that turns its feature on and names a path.
CustomValue(v) == SwitchOn(v) /\ ~IsOnToken(v)

\* <cwd>/.gemini/system.md, written out.
DefaultLocationIn(cwd) == cwd \o <<"/">> \o GEMINI_CONFIG_DIR \o <<"/">> \o SYSTEM_MD

\* <home>/.gemini/system.md, written out.
DefaultLocationAtHome == homedir \o <<"/">> \o GEMINI_CONFIG_DIR \o <<"/">> \o SYSTEM_MD

\* The call attempted the write of its write-back, and the file it named.
AttemptedWrite(p) ==
    /\ log[p] # <<>>
    /\ log[p][Len(log[p])][1] = "writeFileSync"

WriteTarget(p) == log[p][Len(log[p])][2]

\* The call performed its write-back.
Wrote(p) == AttemptedWrite(p) /\ result[p].kind # "throw"

\* The default composition under the environment facts of call p.
DefaultCompositionOf(p) ==
    defaultPrompt(env[p].SANDBOX, gitRepo[env[p].cwd], gitRepo[env[p].cwd])

FsCallsOf(p) == { log[p][i][1] : i \in DOMAIN log[p] }

(***************************************************************************)
(* C1                                                                      *)
(***************************************************************************)
\* C1: a call whose override is enabled and whose resolved override path does
\* not exist goes no further than the existence check: it ends by throwing
\* the missing-system-prompt-file error, returns no string and never
\* composes the default template.
C1_MissingOverrideRaises ==
    \A p \in Procs :
        (/\ pc[p] # "idle"
         /\ SwitchOn(env[p].GEMINI_SYSTEM_MD)
         /\ ~existsSync(fs, systemMdPath[p]))
        => /\ pc[p] \in {"exists", "done"}
           /\ pc[p] = "done" => result[p] = Thrown(MissingOverrideFile)
           /\ basePrompt[p] = <<>>

C1_Witness ==
    \E p \in Procs :
        /\ pc[p] = "done"
        /\ SwitchOn(env[p].GEMINI_SYSTEM_MD)
        /\ ~existsSync(fs, systemMdPath[p])
        /\ result[p] = Thrown(MissingOverrideFile)

(***************************************************************************)
(* C2                                                                      *)
(***************************************************************************)
\* C2 as stated: whatever a write-back writes is the default composition,
\* never the content of an override file.
C2_WritesOnlyDefaultComposition ==
    \A p \in Procs :
        Wrote(p) => fs[WriteTarget(p)] = FileNode(DefaultCompositionOf(p))

\* C2 as amended: what a write-back writes is the call's basePrompt: the
\* default composition when the override is disabled, and the content read
\* from the override file when the override is enabled.
C2_WritesBasePrompt ==
    \A p \in Procs :
        Wrote(p) =>
            fs[WriteTarget(p)] =
                FileNode(IF SwitchOn(env[p].GEMINI_SYSTEM_MD)
                         THEN OverrideContent
                         ELSE DefaultCompositionOf(p))

C2_Witness ==
    \E p \in Procs :
        /\ Wrote(p)
        /\ SwitchOn(env[p].GEMINI_SYSTEM_MD)
        /\ WriteTarget(p) # systemMdPath[p]
        /\ fs[WriteTarget(p)] = FileNode(OverrideContent)

(***************************************************************************)
(* C3                                                                      *)
(***************************************************************************)
\* C3 as stated: when the write-back value is "1" or "true" in any letter
\* case, the file written is the default location, whatever the override
\* value is.
C3_OnTokenWritesDefaultLocation ==
    \A p \in Procs :
        (AttemptedWrite(p) /\ IsOnToken(env[p].GEMINI_WRITE_SYSTEM_MD))
        => WriteTarget(p) = DefaultLocationIn(env[p].cwd)

\* C3 as amended: when the write-back value is "1" or "true" in any letter
\* case, the file written is the override's resolved path: the default
\* location unless the override value names a custom path, and that custom
\* path when it does.  A custom write-back value alone decides its target.
C3_OnTokenWritesSystemMdPath ==
    \A p \in Procs :
        AttemptedWrite(p) =>
            /\ IsOnToken(env[p].GEMINI_WRITE_SYSTEM_MD) =>
                  WriteTarget(p) =
                      IF CustomValue(env[p].GEMINI_SYSTEM_MD)
                      THEN systemMdPath[p]
                      ELSE DefaultLocationIn(env[p].cwd)
            /\ CustomValue(env[p].GEMINI_WRITE_SYSTEM_MD) =>
                  WriteTarget(p) =
                      pathResolve(env[p].cwd, expandHome(env[p].GEMINI_WRITE_SYSTEM_MD))

C3_Witness ==
    \E p \in Procs :
        /\ Wrote(p)
        /\ IsOnToken(env[p].GEMINI_WRITE_SYSTEM_MD)
        /\ env[p].GEMINI_SYSTEM_MD = V_homeFile
        /\ WriteTarget(p) = homedir \o <<"/", "c", ".", "m", "d">>
        /\ WriteTarget(p) # DefaultLocationIn(env[p].cwd)

(***************************************************************************)
(* C4                                                                      *)
(***************************************************************************)
\* C4: after a call that returned, with the write-back enabled and the
\* override disabled, the file written holds the default composition of the
\* call, which does not depend on userMemory, and the returned string is
\* that content followed by the memory suffix.
C4_WriteBackRoundTrip ==
    \A p \in Procs :
        (/\ pc[p] = "done"
         /\ result[p].kind = "return"
         /\ ~SwitchOn(env[p].GEMINI_SYSTEM_MD)
         /\ SwitchOn(env[p].GEMINI_WRITE_SYSTEM_MD))
        => /\ Wrote(p)
           /\ fs[WriteTarget(p)] = FileNode(DefaultCompositionOf(p))
           /\ result[p].value =
                 fs[WriteTarget(p)].data \o memorySuffix(env[p].userMemory)

C4_Witness ==
    \E p \in Procs :
        /\ pc[p] = "done"
        /\ result[p].kind = "return"
        /\ ~SwitchOn(env[p].GEMINI_SYSTEM_MD)
        /\ CustomValue(env[p].GEMINI_WRITE_SYSTEM_MD)
        /\ memorySuffix(env[p].userMemory) # <<>>
        /\ fs[WriteTarget(p)] = FileNode(DefaultCompositionOf(p))
        /\ result[p].value # fs[WriteTarget(p)].data

(***************************************************************************)
(* C5                                                                      *)
(***************************************************************************)
\* C5: when the override value is unset, empty, or "0"/"false" in any letter
\* case, the call makes no existsSync and no readFileSync call, and its
\* basePrompt, once assigned, is the default composition.
C5_DisabledOverrideReadsNothing ==
    \A p \in Procs :
        (pc[p] # "idle" /\ ~SwitchOn(env[p].GEMINI_SYSTEM_MD))
        => /\ FsCallsOf(p) \cap {"existsSync", "readFileSync"} = {}
           /\ pc[p] \in {"mkdir", "write", "return", "done"} =>
                 basePrompt[p] = DefaultCompositionOf(p)

C5_Witness ==
    \E p \in Procs :
        /\ pc[p] = "done"
        /\ env[p].GEMINI_SYSTEM_MD = V_False
        /\ fs[DefaultLocationIn(env[p].cwd)] = FileNode(OverrideContent)
        /\ result[p] = Returned(DefaultCompositionOf(p))


(***************************************************************************)
(* C6                                                                      *)
(***************************************************************************)
\* C6: for an override value that is "1" or "true" in any letter case, the
\* override is enabled and systemMdPath is the default location
\* (GEMINI_CONFIG_DIR joined with system.md), not a path made of the value.
C6_OnTokenEnablesDefaultLocation ==
    (parsed.applied /\ IsOnToken(parsed.input.systemMd))
    => /\ parsed.A.override =
             [enabled |-> TRUE, path |-> DefaultLocationIn(parsed.input.cwdA)]
       /\ parsed.B.override =
             [enabled |-> TRUE, path |-> DefaultLocationIn(parsed.input.cwdB)]

C6_Witness ==
    /\ parsed.applied
    /\ parsed.input.systemMd = V_True
    /\ parsed.A.override.enabled
    /\ parsed.A.override.path = DefaultLocationIn(parsed.input.cwdA)

(***************************************************************************)
(* C7                                                                      *)
(***************************************************************************)
\* C7 as stated: the default location is a fixed path under the home
\* directory, the same for two calls that differ only in their working
\* directory.
C7_DefaultLocationFixedUnderHome ==
    (parsed.applied /\ ~CustomValue(parsed.input.systemMd))
    => parsed.A.override.path = parsed.B.override.path

\* C7 as amended: the default location is .gemini/system.md resolved against
\* the working directory of the process, <cwd>/.gemini/system.md: two calls
\* resolve it to the same absolute path exactly when their working
\* directories are the same.
C7_DefaultLocationUnderCwd ==
    (parsed.applied /\ ~CustomValue(parsed.input.systemMd))
    => /\ parsed.A.override.path = DefaultLocationIn(parsed.input.cwdA)
       /\ parsed.B.override.path = DefaultLocationIn(parsed.input.cwdB)
       /\ (parsed.A.override.path = parsed.B.override.path)
             <=> (parsed.input.cwdA = parsed.input.cwdB)

C7_Witness ==
    /\ parsed.applied
    /\ ~CustomValue(parsed.input.systemMd)
    /\ parsed.input.cwdA # parsed.input.cwdB
    /\ parsed.A.override.path # parsed.B.override.path
    /\ parsed.A.override.path # DefaultLocationAtHome

(***************************************************************************)
(* C8                                                                      *)
(***************************************************************************)
\* C8 as stated, for a custom value v resolved to path in directory cwd: a
\* value with a leading "~" is expanded against the home directory, every
\* other value that is not absolute is resolved against cwd, and the
\* resolved path is absolute.
C8_StatedRule(v, cwd, path) ==
    /\ startsWith(v, <<"~">>) => (path = homedir \/ startsWith(path, homedir \o <<"/">>))
    /\ (~startsWith(v, <<"~">>) /\ ~isAbsolute(v)) => startsWith(path, cwd \o <<"/">>)
    /\ isAbsolute(path)

C8_LeadingTildeExpands ==
    parsed.applied =>
        /\ CustomValue(parsed.input.systemMd) =>
              C8_StatedRule(parsed.input.systemMd, parsed.input.cwdA,
                            parsed.A.override.path)
        /\ CustomValue(parsed.input.writeSystemMd) =>
              C8_StatedRule(parsed.input.writeSystemMd, parsed.input.cwdA,
                            parsed.A.writeBack.path)

\* C8 as amended, for a custom value v: the value "~" resolves to the home
\* directory and a value beginning with "~/" to the rest of the value under
\* the home directory; every other value, also one that begins with "~"
\* without being "~" or beginning with "~/", is resolved against cwd unless
\* it is absolute; the resolved path is absolute.
C8_AmendedRule(v, cwd, path) ==
    /\ v = <<"~">> => path = homedir
    /\ startsWith(v, <<"~", "/">>) => path = homedir \o <<"/">> \o slice(v, 2)
    /\ (v # <<"~">> /\ ~startsWith(v, <<"~", "/">>)) =>
          IF isAbsolute(v) THEN path = v ELSE startsWith(path, cwd \o <<"/">>)
    /\ isAbsolute(path)

C8_HomeShorthandExpands ==
    parsed.applied =>
        /\ CustomValue(parsed.input.systemMd) =>
              C8_AmendedRule(parsed.input.systemMd, parsed.input.cwdA,
                             parsed.A.override.path)
        /\ CustomValue(parsed.input.writeSystemMd) =>
              C8_AmendedRule(parsed.input.writeSystemMd, parsed.input.cwdA,
                             parsed.A.writeBack.path)

C8_Witness ==
    /\ parsed.applied
    /\ parsed.input.systemMd = V_homeFile
    /\ parsed.A.override.path = homedir \o <<"/", "c", ".", "m", "d">>
    /\ parsed.input.writeSystemMd = V_tildeName
    /\ parsed.A.writeBack.path = parsed.input.cwdA \o <<"/", "~", "x">>

(***************************************************************************)
(* C9                                                                      *)
(***************************************************************************)
\* C9: a call whose override is enabled and whose resolved path exists but
\* is a directory ends by throwing the missing-system-prompt-file error.
C9_DirectoryOverrideRaisesMissing ==
    \A p \in Procs :
        (/\ pc[p] = "done"
         /\ SwitchOn(env[p].GEMINI_SYSTEM_MD)
         /\ fs[systemMdPath[p]].kind = "dir")
        => result[p] = Thrown(MissingOverrideFile)

(***************************************************************************)
(* C10                                                                     *)
(***************************************************************************)
\* C10: with the write-back disabled, a call whose override is enabled and
\* names a place that is not a directory either returns or throws the
\* missing-system-prompt-file error, whatever other processes do to the
\* file between the statements of the call.
C10_OnlyMissingOverrideFileIsThrown ==
    \A p \in Procs :
        (/\ pc[p] = "done"
         /\ SwitchOn(env[p].GEMINI_SYSTEM_MD)
         /\ ~SwitchOn(env[p].GEMINI_WRITE_SYSTEM_MD)
         /\ fs[systemMdPath[p]].kind # "dir")
        => \/ result[p].kind = "return"
           \/ result[p] = Thrown(MissingOverrideFile)


(***************************************************************************)
(* Vocabulary of the properties about the composition                      *)
(***************************************************************************)
\* The first place of a token in a string, 0 when it is not there.
IndexOf(str, tok) ==
    IF \E i \in DOMAIN str : str[i] = tok
    THEN CHOOSE i \in DOMAIN str : str[i] = tok /\ \A j \in 1..(i - 1) : str[j] # tok
    ELSE 0

Has(str, tok) == \E i \in DOMAIN str : str[i] = tok

RECURSIVE Without(_, _)
\* A string with every occurrence of a token removed.
Without(str, tok) ==
    IF str = <<>> THEN <<>>
    ELSE IF Head(str) = tok THEN Without(Tail(str), tok)
         ELSE <<Head(str)>> \o Without(Tail(str), tok)

InstructionBody == "# System Identity"
FragmentA == "# macOS Seatbelt"
FragmentGeneric == "# Sandbox"
FragmentOutside == "# Outside of Sandbox"
FragmentGit == "# Git Repository"
TrailingBodyStart == "# Examples"
TrailingBodyEnd == "</example>"
CommitMessageLine == "We should commit these changes"

SandboxHeadings == {FragmentA, FragmentGeneric, FragmentOutside}

\* The places of the sandbox headings in a string.
SandboxPlaces(str) == { i \in DOMAIN str : str[i] \in SandboxHeadings }

\* What lies between the static instruction body and the trailing body.
BetweenBodies(str) ==
    SubSeq(str, IndexOf(str, InstructionBody) + 1, IndexOf(str, TrailingBodyStart) - 1)

\* The part of a default composition from the trailing body on.
TrailingBodyOf(str) == SubSeq(str, IndexOf(str, TrailingBodyStart), Len(str))

NonBlank(str) == { str[i] : i \in DOMAIN str } \ WhiteSpace

\* The composition was applied with the override disabled.
ComposedDefault == composed.applied /\ composed.input.override = undefined

(***************************************************************************)
(* C11                                                                     *)
(***************************************************************************)
\* C11: once a call whose override is enabled has read the file, its
\* basePrompt is the content of the file as it is, white space at both ends
\* included, whatever the sandbox setting and the version-control status
\* are; the string it returns begins with that content.
C11_OverrideIsVerbatim ==
    \A p \in Procs :
        (/\ SwitchOn(env[p].GEMINI_SYSTEM_MD)
         /\ \/ pc[p] \in {"mkdir", "write", "return"}
            \/ pc[p] = "done" /\ "readFileSync" \in FsCallsOf(p)
                              /\ result[p].error \notin {"EISDIR", "ENOENT"})
        => /\ basePrompt[p] = fsAtStart[p][systemMdPath[p]].data
           /\ basePrompt[p] = OverrideContent
           /\ result[p].kind = "return" =>
                 SubSeq(result[p].value, 1, Len(OverrideContent)) = OverrideContent

C11_Witness ==
    \E p \in Procs :
        /\ pc[p] = "done"
        /\ SwitchOn(env[p].GEMINI_SYSTEM_MD)
        /\ env[p].SANDBOX = SANDBOX_EXEC
        /\ gitRepo[env[p].cwd]
        /\ basePrompt[p] = <<" ", "custom prompt", "\n">>
        /\ result[p] = Returned(<<" ", "custom prompt", "\n">>)

(***************************************************************************)
(* C12                                                                     *)
(***************************************************************************)
\* C12: a default composition begins with the static instruction body and
\* ends with the static trailing body; its sandbox fragment lies after the
\* instruction body, its version-control fragment, when there is one, after
\* the sandbox fragment, and both before the trailing body.
C12_OrderOf(str, isGit) ==
    LET iBody == IndexOf(str, InstructionBody)
        iSandbox == CHOOSE i \in SandboxPlaces(str) : TRUE
        iGit == IndexOf(str, FragmentGit)
        iTrail == IndexOf(str, TrailingBodyStart)
    IN /\ iBody = 1
       /\ SandboxPlaces(str) # {}
       /\ iBody < iSandbox /\ iSandbox < iTrail
       /\ isGit => (iSandbox < iGit /\ iGit < iTrail)
       /\ str[Len(str)] = TrailingBodyEnd

C12_FixedOrder ==
    ComposedDefault =>
        /\ C12_OrderOf(composed.A.base, composed.input.A.isGit)
        /\ C12_OrderOf(composed.B.base, composed.input.B.isGit)

C12_Witness ==
    /\ ComposedDefault
    /\ composed.input.A = [SANDBOX |-> V_docker, isGit |-> TRUE]
    /\ IndexOf(composed.A.base, FragmentGeneric) = 5
    /\ IndexOf(composed.A.base, FragmentGit) = 10
    /\ IndexOf(composed.A.base, TrailingBodyStart) = 15

(***************************************************************************)
(* C13                                                                     *)
(***************************************************************************)
\* C13 as stated: with the override disabled, no sandbox and no version
\* control, nothing but white space lies between the static instruction
\* body and the static trailing body.
C13_NothingBetweenBodies ==
    (/\ ComposedDefault
     /\ ~Truthy(composed.input.A.SANDBOX)
     /\ ~composed.input.A.isGit)
    => NonBlank(BetweenBodies(composed.A.base)) = {}

\* C13 as amended: with the override disabled, no sandbox and no version
\* control, the composition has neither fragment A nor the generic sandbox
\* fragment nor the version-control fragment, and what lies between the two
\* static bodies is the "Outside of Sandbox" fragment, once.
C13_OnlyOutsideFragmentBetweenBodies ==
    (/\ ComposedDefault
     /\ ~Truthy(composed.input.A.SANDBOX)
     /\ ~composed.input.A.isGit)
    => /\ NonBlank(BetweenBodies(composed.A.base)) = {FragmentOutside}
       /\ Cardinality(SandboxPlaces(composed.A.base)) = 1
       /\ ~Has(composed.A.base, FragmentA)
       /\ ~Has(composed.A.base, FragmentGeneric)
       /\ ~Has(composed.A.base, FragmentGit)

C13_Witness ==
    /\ ComposedDefault
    /\ composed.input.A = [SANDBOX |-> undefined, isGit |-> FALSE]
    /\ composed.A.base[5] = FragmentOutside
    /\ IndexOf(composed.A.base, TrailingBodyStart) = 12

(***************************************************************************)
(* C14                                                                     *)
(***************************************************************************)
\* C14: for every value of SANDBOX a default composition has exactly one
\* sandbox fragment: fragment A exactly when SANDBOX is "sandbox-exec", the
\* generic fragment exactly when SANDBOX is another non-empty value, and
\* the outside fragment exactly when SANDBOX is unset or empty; fragment A
\* and the generic fragment are never both there.
C14_ExactlyOneFragment(str, SANDBOX) ==
    /\ Cardinality(SandboxPlaces(str)) = 1
    /\ Has(str, FragmentA) <=> SANDBOX = SANDBOX_EXEC
    /\ Has(str, FragmentGeneric) <=>
          (SANDBOX \notin {undefined, <<>>} /\ SANDBOX # SANDBOX_EXEC)
    /\ Has(str, FragmentOutside) <=> SANDBOX \in {undefined, <<>>}
    /\ ~(Has(str, FragmentA) /\ Has(str, FragmentGeneric))

C14_SandboxSelectionExclusive ==
    ComposedDefault =>
        /\ C14_ExactlyOneFragment(composed.A.base, composed.input.A.SANDBOX)
        /\ C14_ExactlyOneFragment(composed.B.base, composed.input.B.SANDBOX)

C14_Witness ==
    /\ ComposedDefault
    /\ composed.input.A.SANDBOX = SANDBOX_EXEC
    /\ composed.input.B.SANDBOX = V_docker
    /\ Has(composed.A.base, FragmentA) /\ ~Has(composed.A.base, FragmentGeneric)
    /\ Has(composed.B.base, FragmentGeneric) /\ ~Has(composed.B.base, FragmentA)

(***************************************************************************)
(* C15                                                                     *)
(***************************************************************************)
\* C15: a default composition has the version-control fragment exactly when
\* isVersionControlled is true; when it is false, nothing but white space
\* lies between the sandbox fragment and the trailing body.
C15_GitFragmentOf(str, isGit) ==
    LET iSandbox == CHOOSE i \in SandboxPlaces(str) : TRUE
        iTrail == IndexOf(str, TrailingBodyStart)
    IN /\ Has(str, FragmentGit) <=> isGit
       /\ NonBlank(SubSeq(str, iSandbox + 1, iTrail - 1)) =
             IF isGit THEN {FragmentGit} ELSE {}

C15_GitFragmentIffVersionControlled ==
    ComposedDefault =>
        /\ C15_GitFragmentOf(composed.A.base, composed.input.A.isGit)
        /\ C15_GitFragmentOf(composed.B.base, composed.input.B.isGit)

C15_Witness ==
    /\ ComposedDefault
    /\ composed.input.A.isGit /\ ~composed.input.B.isGit
    /\ Has(composed.A.base, FragmentGit)
    /\ ~Has(composed.B.base, FragmentGit)
    /\ Len(composed.A.base) > Len(composed.B.base)

(***************************************************************************)
(* C16                                                                     *)
(***************************************************************************)
\* C16 as stated: the part of a default composition from the trailing body
\* on is the same string for every value of the environment facts.
C16_TrailingBodyStatic ==
    ComposedDefault =>
        TrailingBodyOf(composed.A.base) = TrailingBodyOf(composed.B.base)

\* C16 as amended: the part of a default composition from the trailing body
\* on is the same for every sandbox kind, and depends on
\* isVersionControlled through the commit-message line of the refactoring
\* example only, which is there exactly when isVersionControlled is true:
\* two compositions that differ only in isVersionControlled differ by the
\* version-control fragment and by that line.
C16_TrailingBodyUpToCommitLine ==
    ComposedDefault =>
        LET tA == TrailingBodyOf(composed.A.base)
            tB == TrailingBodyOf(composed.B.base)
        IN /\ Without(tA, CommitMessageLine) = Without(tB, CommitMessageLine)
           /\ Has(tA, CommitMessageLine) <=> composed.input.A.isGit
           /\ Has(tB, CommitMessageLine) <=> composed.input.B.isGit
           /\ composed.input.A.isGit = composed.input.B.isGit => tA = tB
           /\ composed.input.A.SANDBOX = composed.input.B.SANDBOX =>
                 Without(Without(Without(composed.A.base, FragmentGit),
                                 CommitMessageLine), "\n")
                 = Without(Without(Without(composed.B.base, FragmentGit),
                                   CommitMessageLine), "\n")

C16_Witness ==
    /\ ComposedDefault
    /\ composed.input.A.SANDBOX = composed.input.B.SANDBOX
    /\ composed.input.A.isGit /\ ~composed.input.B.isGit
    /\ TrailingBodyOf(composed.A.base) # TrailingBodyOf(composed.B.base)
    /\ Has(TrailingBodyOf(composed.A.base), CommitMessageLine)


(***************************************************************************)
(* C17                                                                     *)
(***************************************************************************)
\* What a call has to return for its inputs: environment, argument, the
\* filesystem at its entry and the version-control status.
ReturnValueFor(e, files, git) ==
    LET r == resolveSystemMd(e.GEMINI_SYSTEM_MD, e.cwd)
        content == IF r.enabled THEN files[r.path].data ELSE undefined
    IN composePrompt(content, e.SANDBOX, git[e.cwd], e.userMemory).output

\* C17: the string a call returns is a function of its configuration
\* values, its userMemory, the environment facts and the filesystem content
\* at its entry, whether it is the first call or follows other calls; a
\* call that follows a call with the same inputs on the same filesystem
\* content returns the same string as that call.
C17_Deterministic ==
    \A p \in Procs :
        pc[p] = "done" =>
            /\ result[p].kind = "return" =>
                  result[p].value = ReturnValueFor(env[p], fsAtStart[p], gitRepo)
            /\ lastReturn[p] # undefined => result[p] = Returned(lastReturn[p])

C17_Witness ==
    \E p \in Procs :
        /\ pc[p] = "done"
        /\ calls = 1
        /\ SwitchOn(env[p].GEMINI_SYSTEM_MD)
        /\ lastReturn[p] # undefined
        /\ result[p] = Returned(lastReturn[p])

(***************************************************************************)
(* C18                                                                     *)
(***************************************************************************)
\* userMemory.trim() of the values the compositions take, written out.
TrimmedMemory(m) ==
    CASE m = <<"remember X">> -> <<"remember X">>
      [] m = <<" ", "remember X", "\n">> -> <<"remember X">>
      [] m = <<"remember", " ", "X", "\n">> -> <<"remember", " ", "X">>
      [] OTHER -> <<>>

BlankMemories == { undefined, <<>>, <<" ">>, <<"\n", " ", "\n">> }

C18_SuffixOf(c, m) ==
    /\ SubSeq(c.output, 1, Len(c.base)) = c.base
    /\ m \in BlankMemories => c.output = c.base
    /\ m \notin BlankMemories =>
          c.output = c.base \o <<"\n", "\n", "-", "-", "-", "\n", "\n">>
                            \o TrimmedMemory(m)

\* C18: for an override base and for a default base alike, the returned
\* string is the base when userMemory is unset, empty or white space only,
\* and otherwise the base, then "\n\n---\n\n", then userMemory without its
\* leading and trailing white space; the base is always a prefix of it.
C18_MemorySuffix ==
    composed.applied =>
        /\ composed.A.base = IF composed.input.override # undefined
                             THEN composed.input.override
                             ELSE defaultPrompt(composed.input.A.SANDBOX,
                                                composed.input.A.isGit,
                                                composed.input.A.isGit)
        /\ C18_SuffixOf(composed.A, composed.input.userMemory)
        /\ C18_SuffixOf(composed.B, composed.input.userMemory)

C18_Witness ==
    /\ composed.applied
    /\ composed.input.override = OverrideContent
    /\ composed.input.userMemory = <<"remember", " ", "X", "\n">>
    /\ composed.A.output = <<" ", "custom prompt", "\n", "\n", "\n", "-", "-", "-",
                             "\n", "\n", "remember", " ", "X">>

(***************************************************************************)
(* C19                                                                     *)
(***************************************************************************)
\* C19: a call whose write-back is enabled calls mkdirSync on the parent
\* directory of the target immediately before writeFileSync on the target;
\* mkdirSync raises nothing when the directories exist already; once the
\* call has returned, the target is a file whose content is exactly
\* basePrompt; and a call that repeats the call before it leaves the
\* filesystem as it found it.
C19_WriteBackIdempotent ==
    \A p \in Procs :
        /\ \A i \in DOMAIN log[p] :
              log[p][i][1] = "writeFileSync" =>
                 /\ i > 1
                 /\ log[p][i - 1] = <<"mkdirSync", pathDirname(log[p][i][2])>>
                 /\ log[p][i][2] = writeBack(p).path
        /\ (/\ pc[p] = "done"
            /\ log[p] # <<>>
            /\ log[p][Len(log[p])][1] = "mkdirSync"
            /\ \A a \in Ancestors(log[p][Len(log[p])][2]) : fsAtStart[p][a].kind = "dir")
           => result[p].kind # "throw"
        /\ (pc[p] \in {"write", "return"} /\ writeBack(p).enabled) =>
              \A a \in Ancestors(pathDirname(writeBack(p).path)) : fs[a].kind = "dir"
        /\ (pc[p] = "done" /\ result[p].kind = "return" /\ writeBack(p).enabled)
           => /\ Wrote(p)
              /\ fs[writeBack(p).path] = FileNode(basePrompt[p])
        /\ (repeated[p] /\ writeBack(p).enabled) => fs = fsAtStart[p]

C19_Witness ==
    \E p \in Procs :
        /\ pc[p] = "done"
        /\ calls = 1
        /\ repeated[p]
        /\ env[p].GEMINI_SYSTEM_MD = undefined
        /\ env[p].GEMINI_WRITE_SYSTEM_MD = V_homeFile
        /\ Wrote(p)
        /\ result[p].kind = "return"
        /\ fs = fsAtStart[p]
        /\ fs[writeBack(p).path] = FileNode(basePrompt[p])
        /\ basePrompt[p] # OverrideContent

(***************************************************************************)
(* C20                                                                     *)
(***************************************************************************)
\* C20: when the write-back of a call is enabled and mkdirSync or
\* writeFileSync fails, the call throws the error of that operation; a call
\* with write-back enabled returns a string only after both succeeded and
\* the target holds basePrompt.
C20_WriteBackFailureIsThrown ==
    \A p \in Procs :
        (pc[p] = "done" /\ writeBack(p).enabled) =>
            LET target == writeBack(p).path
                dir == pathDirname(target)
                reached == "mkdirSync" \in FsCallsOf(p)
                afterMkdir == mkdirSync(fsAtStart[p], dir)
            IN /\ (reached /\ mkdirError(fsAtStart[p], dir) # "ok")
                  => /\ result[p] = Thrown(mkdirError(fsAtStart[p], dir))
                     /\ "writeFileSync" \notin FsCallsOf(p)
               /\ (/\ reached
                   /\ mkdirError(fsAtStart[p], dir) = "ok"
                   /\ writeFileError(afterMkdir, target) # "ok")
                  => result[p] = Thrown(writeFileError(afterMkdir, target))
               /\ result[p].kind = "return"
                  => /\ mkdirError(fsAtStart[p], dir) = "ok"
                     /\ writeFileError(afterMkdir, target) = "ok"
                     /\ fs[target] = FileNode(basePrompt[p])

C20_Witness ==
    \E p \in Procs :
        /\ pc[p] = "done"
        /\ env[p].GEMINI_WRITE_SYSTEM_MD = V_underFile
        /\ log[p] # <<>>
        /\ log[p][Len(log[p])][1] = "mkdirSync"
        /\ result[p] = Thrown("EEXIST")


(***************************************************************************)
(* C23                                                                     *)
(***************************************************************************)
\* A value of GEMINI_WRITE_SYSTEM_MD that leaves the write-back off.
WriteBackOffValue(v) == v = undefined \/ v = <<>> \/ toLowerCase(v) \in OffTokens

\* C23: a call whose GEMINI_WRITE_SYSTEM_MD is unset, empty, or "0" or
\* "false" in any letter case calls neither mkdirSync nor writeFileSync, and
\* the filesystem stays as it was when the call was entered, at every
\* statement of the call and whether it returns or throws.
C23_WriteBackOffLeavesFilesystem ==
    \A p \in Procs :
        (pc[p] # "idle" /\ WriteBackOffValue(env[p].GEMINI_WRITE_SYSTEM_MD))
        => /\ fs = fsAtStart[p]
           /\ FsCallsOf(p) \subseteq {"existsSync", "readFileSync"}

C23_Witness ==
    \E p \in Procs :
        /\ pc[p] = "done"
        /\ env[p].GEMINI_WRITE_SYSTEM_MD = V_FALSE
        /\ env[p].GEMINI_SYSTEM_MD = undefined
        /\ result[p].kind = "return"
        /\ fs = fsAtStart[p]
        /\ fs[DefaultLocationIn(env[p].cwd)].kind = "none"

(***************************************************************************)
(* C24                                                                     *)
(***************************************************************************)
\* C24: a call whose override is enabled and whose file does not exist
\* throws the missing-file error having made one filesystem call, the
\* existsSync; it creates no directory and writes no file, also when the
\* write-back is enabled: the filesystem is as it was at the entry.
C24_MissingOverrideBeforeSideEffects ==
    \A p \in Procs :
        (/\ pc[p] = "done"
         /\ SwitchOn(env[p].GEMINI_SYSTEM_MD)
         /\ fsAtStart[p][systemMdPath[p]].kind = "none")
        => /\ result[p] = Thrown(MissingOverrideFile)
           /\ log[p] = << <<"existsSync", systemMdPath[p]>> >>
           /\ fs = fsAtStart[p]

C24_Witness ==
    \E p \in Procs :
        /\ pc[p] = "done"
        /\ env[p].GEMINI_SYSTEM_MD = V_1
        /\ env[p].GEMINI_WRITE_SYSTEM_MD = V_1
        /\ fsAtStart[p][pathDirname(systemMdPath[p])].kind = "none"
        /\ result[p] = Thrown(MissingOverrideFile)
        /\ fs[pathDirname(systemMdPath[p])].kind = "none"

(***************************************************************************)
(* C25                                                                     *)
(***************************************************************************)
\* The letters a string has in upper case.
UpperLetters(str) == { str[i] : i \in { j \in DOMAIN str : LowerChar(str[j]) # str[j] } }

C25_CasePreserved(v, switch, cwd) ==
    CustomValue(v) =>
        /\ switch.enabled
        /\ switch.path = pathResolve(cwd, expandHome(v))
        /\ UpperLetters(v) \subseteq UpperLetters(switch.path)
        /\ toLowerCase(v) # v =>
              switch.path # pathResolve(cwd, expandHome(toLowerCase(v)))

\* C25: for a custom value of GEMINI_SYSTEM_MD or GEMINI_WRITE_SYSTEM_MD
\* the resolved path is made from the value as given: every upper-case
\* letter of the value is in the path, and the path is not the one its
\* lower-cased form names.
C25_CustomPathKeepsLetterCase ==
    parsed.applied =>
        /\ C25_CasePreserved(parsed.input.systemMd, parsed.A.override, parsed.input.cwdA)
        /\ C25_CasePreserved(parsed.input.writeSystemMd, parsed.A.writeBack,
                             parsed.input.cwdA)

C25_Witness ==
    /\ parsed.applied
    /\ parsed.input.systemMd = V_absolute
    /\ parsed.input.writeSystemMd = V_absolute
    /\ parsed.A.override = [enabled |-> TRUE, path |-> <<"/", "A", "/", "f">>]
    /\ parsed.A.writeBack = [enabled |-> TRUE, path |-> <<"/", "A", "/", "f">>]

(***************************************************************************)
(* C29                                                                     *)
(***************************************************************************)
\* The override and the write-back of call p name the same file.
SameFileBothSwitches(p) ==
    /\ SwitchOn(env[p].GEMINI_SYSTEM_MD)
    /\ writeBack(p).enabled
    /\ writeBack(p).path = systemMdPath[p]

\* C29: a call, alone on the filesystem, whose override and write-back name
\* the same existing file writes to it the content it read from it: once
\* the call has returned, the filesystem is as it was at the entry and
\* basePrompt is the content of the file.
C29_SameFileRewrittenUnchanged ==
    \A p \in Procs :
        (/\ pc[p] = "done"
         /\ SameFileBothSwitches(p)
         /\ fsAtStart[p][systemMdPath[p]].kind = "file")
        => /\ result[p].kind = "return"
           /\ Wrote(p)
           /\ WriteTarget(p) = systemMdPath[p]
           /\ fs = fsAtStart[p]
           /\ basePrompt[p] = fsAtStart[p][systemMdPath[p]].data
           /\ fs[systemMdPath[p]] = FileNode(basePrompt[p])

C29_Witness ==
    \E p \in Procs :
        /\ pc[p] = "done"
        /\ env[p].GEMINI_SYSTEM_MD = V_homeFile
        /\ env[p].GEMINI_WRITE_SYSTEM_MD = V_True
        /\ Wrote(p)
        /\ WriteTarget(p) = pathJoin(homedir, <<"c", ".", "m", "d">>)
        /\ fs = fsAtStart[p]
        /\ fs[WriteTarget(p)] = FileNode(OverrideContent)

(***************************************************************************)
(* C30                                                                     *)
(***************************************************************************)
\* C30: a default base neither begins nor ends with white space, for every
\* value of the environment facts, so that the separator of the memory
\* suffix follows a character that is not white space; an override base is
\* the content of the file with its white space.
C30_TrimmedBase(c, m) ==
    /\ c.base # <<>>
    /\ c.base[1] \notin WhiteSpace
    /\ c.base[Len(c.base)] \notin WhiteSpace
    /\ m \notin BlankMemories =>
          /\ SubSeq(c.output, Len(c.base) + 1, Len(c.base) + 7) =
                <<"\n", "\n", "-", "-", "-", "\n", "\n">>
          /\ c.output[Len(c.base)] \notin WhiteSpace

C30_DefaultBaseTrimmed ==
    composed.applied =>
        IF composed.input.override = undefined
        THEN /\ C30_TrimmedBase(composed.A, composed.input.userMemory)
             /\ C30_TrimmedBase(composed.B, composed.input.userMemory)
        ELSE /\ composed.A.base = composed.input.override
             /\ composed.B.base = composed.input.override

C30_Witness ==
    /\ ComposedDefault
    /\ composed.input.userMemory = <<" ", "remember X", "\n">>
    /\ composed.input.A = [SANDBOX |-> SANDBOX_EXEC, isGit |-> TRUE]
    /\ composed.A.base[1] = InstructionBody
    /\ composed.A.base[Len(composed.A.base)] = TrailingBodyEnd
    /\ composed.A.output[Len(composed.A.base) + 1] = "\n"


(***************************************************************************)
(* C26                                                                     *)
(***************************************************************************)
\* C26: in every default template a call returns, the Git Repository
\* fragment is there exactly when the commit-message line of the
\* refactoring example is there, also when the version-control status of
\* the working directory changes while the call runs.
C26_OneSnapshotPerCall ==
    \A p \in Procs :
        (/\ pc[p] = "done"
         /\ result[p].kind = "return"
         /\ ~SwitchOn(env[p].GEMINI_SYSTEM_MD))
        => (Has(result[p].value, FragmentGit) <=> Has(result[p].value, CommitMessageLine))


(***************************************************************************)
(* C27                                                                     *)
(***************************************************************************)
\* C27: when a call with the override disabled has written its default
\* composition to a file and returned, the next call, with the override
\* naming that file and the write-back off, returns that composition,
\* followed by its own memory suffix, whatever its own sandbox setting and
\* the version-control status of its own working directory are.
C27_ReuseRoundTrip ==
    \A p \in Procs :
        (/\ pc[p] = "done"
         /\ lastWritten[p] # NothingWritten
         /\ SwitchOn(env[p].GEMINI_SYSTEM_MD)
         /\ systemMdPath[p] = lastWritten[p].path
         /\ WriteBackOffValue(env[p].GEMINI_WRITE_SYSTEM_MD))
        => /\ basePrompt[p] = lastWritten[p].base
           /\ result[p].kind = "return"
           /\ IF env[p].userMemory \in BlankMemories
              THEN result[p].value = lastWritten[p].base
              ELSE result[p].value =
                      lastWritten[p].base \o <<"\n", "\n", "-", "-", "-", "\n", "\n">>
                                          \o TrimmedMemory(env[p].userMemory)

C27_Witness ==
    \E p \in Procs :
        /\ pc[p] = "done"
        /\ calls = 1
        /\ env[p].GEMINI_SYSTEM_MD = V_homeFile
        /\ env[p].GEMINI_WRITE_SYSTEM_MD = undefined
        /\ env[p].SANDBOX = SANDBOX_EXEC
        /\ gitRepo[env[p].cwd]
        /\ lastWritten[p].path = systemMdPath[p]
        /\ Has(lastWritten[p].base, FragmentOutside)
        /\ ~Has(lastWritten[p].base, FragmentGit)
        /\ basePrompt[p] = lastWritten[p].base
        /\ result[p].kind = "return"


(***************************************************************************)
(* C22                                                                     *)
(***************************************************************************)
\* C22: every call of getCompressionPrompt returns the same string, for
\* every environment and filesystem; the filesystem changes only by the
\* write-back of getCoreSystemPrompt, and what getCoreSystemPrompt returns
\* is what it returns without calls of getCompressionPrompt in between.
C22_CompressionPromptConstant ==
    /\ compression.calls > 0 =>
          compression.value =
             <<"You are the component that summarizes internal chat history",
               "\n", "\n", "<state_snapshot>", "\n", "</state_snapshot>">>
    /\ \A p \in Procs :
          /\ (\/ pc[p] \in {"idle", "exists", "read", "compose", "compose2", "mkdir"}
              \/ WriteBackOffValue(env[p].GEMINI_WRITE_SYSTEM_MD))
             => fs = fsAtStart[p]
          /\ (pc[p] = "done" /\ result[p].kind = "return")
             => result[p].value = ReturnValueFor(env[p], fsAtStart[p], gitRepo)

C22_Witness ==
    /\ compression.calls = 2
    /\ compression.value[1] =
          "You are the component that summarizes internal chat history"
    /\ \E p \in Procs :
          /\ pc[p] = "done"
          /\ Wrote(p)
          /\ fs # fsAtStart[p]
          /\ result[p].kind = "return"


(***************************************************************************)
(* C21                                                                     *)
(***************************************************************************)
\* C21, for two calls that compose the default template: when two
\* concurrent calls with the write-back enabled to the same file have both
\* completed their write-back, neither has thrown an error of mkdirSync or
\* writeFileSync, and the file holds exactly the basePrompt of the call
\* whose write happened last.
C21_LastWriterWins ==
    (/\ \A p \in PairProcs : /\ pc[p] = "done"
                             /\ ~systemMdEnabled[p]
                             /\ writeBack(p).enabled
                             /\ "mkdirSync" \in FsCallsOf(p)
     /\ writeBack(1).path = writeBack(2).path)
    => /\ \A p \in PairProcs : result[p].kind = "return"
       /\ lastWriter \in PairProcs
       /\ fs[writeBack(1).path] = FileNode(basePrompt[lastWriter])

(***************************************************************************)
(* C28                                                                     *)
(***************************************************************************)
\* C28: a call whose override names a file that a concurrent call writes
\* its default composition back to has, when it returns, either the
\* content the file had before or the complete composition of the writer as
\* its basePrompt, never an empty or partial content.
C28_ReaderSeesWholeContent ==
    \A r \in PairProcs : \A q \in PairProcs \ {r} :
        (/\ pc[r] = "done"
         /\ result[r].kind = "return"
         /\ SwitchOn(env[r].GEMINI_SYSTEM_MD)
         /\ ~writeBack(r).enabled
         /\ pc[q] # "idle"
         /\ ~systemMdEnabled[q]
         /\ writeBack(q).enabled
         /\ writeBack(q).path = systemMdPath[r])
        => basePrompt[r] \in {OverrideContent, DefaultCompositionOf(q)}

====
